---- MODULE Spec2Model ----
(***************************************************************************)
(* Model of the verm_staking program (src/contracts/verm_staking.rs): a    *)
(* stake pool, one user account per depositor, and the instructions        *)
(* initialize, create_user_account, stake, unstake and claim_rewards.      *)
(*                                                                         *)
(* Every u64 of the program is modelled at its full width.  TLC's own      *)
(* integers are 32 bits wide, so a u64 is a sequence of limbs in base      *)
(* 10^4, least significant limb first, without high zero limbs (zero is    *)
(* the empty sequence).  Two numbers are equal iff their sequences are.    *)
(***************************************************************************)
EXTENDS Integers, Sequences, FiniteSets, TLC

\* ------------------------------------------------------------------------
\* Unbounded naturals as limb sequences
\* ------------------------------------------------------------------------

\* The radix of a limb; a limb product stays below 2^31.
Base == 10 ^ 4

\* The limb at position i, zero beyond the top.
Limb(s, i) == IF i <= Len(s) THEN s[i] ELSE 0

RECURSIVE Norm(_)
\* s without its high zero limbs.
Norm(s) ==
    IF s = <<>> THEN <<>>
    ELSE IF s[Len(s)] = 0 THEN Norm(SubSeq(s, 1, Len(s) - 1))
    ELSE s

RECURSIVE N(_)
\* The limb sequence of a TLC integer n >= 0.
N(n) == IF n = 0 THEN <<>> ELSE <<n % Base>> \o N(n \div Base)

\* The number written with the decimal groups of four digits g, most
\* significant group first: Big(<<24, 6000, 0>>) is 2_460_000_000.
Big(g) == Norm([i \in 1..Len(g) |-> g[Len(g) + 1 - i]])

RECURSIVE LeqAt(_, _, _)
LeqAt(a, b, i) ==
    IF i = 0 THEN TRUE
    ELSE IF a[i] < b[i] THEN TRUE
    ELSE IF a[i] > b[i] THEN FALSE
    ELSE LeqAt(a, b, i - 1)

\* a <= b
Leq(a, b) ==
    IF Len(a) < Len(b) THEN TRUE
    ELSE IF Len(a) > Len(b) THEN FALSE
    ELSE LeqAt(a, b, Len(a))

\* a < b
Lt(a, b) == ~Leq(b, a)

RECURSIVE AddC(_, _, _, _)
AddC(a, b, i, c) ==
    IF i > Len(a) /\ i > Len(b)
    THEN (IF c = 0 THEN <<>> ELSE <<c>>)
    ELSE LET t == Limb(a, i) + Limb(b, i) + c
         IN  <<t % Base>> \o AddC(a, b, i + 1, t \div Base)

\* a + b
Add(a, b) == AddC(a, b, 1, 0)

RECURSIVE SubC(_, _, _, _)
SubC(a, b, i, c) ==
    IF i > Len(a) THEN <<>>
    ELSE LET t == a[i] - Limb(b, i) - c
         IN  IF t < 0 THEN <<t + Base>> \o SubC(a, b, i + 1, 1)
             ELSE <<t>> \o SubC(a, b, i + 1, 0)

\* a - b, for b <= a
Sub(a, b) == Norm(SubC(a, b, 1, 0))

RECURSIVE MulLimbC(_, _, _, _)
MulLimbC(a, m, i, c) ==
    IF i > Len(a)
    THEN (IF c = 0 THEN <<>> ELSE <<c>>)
    ELSE LET t == a[i] * m + c
         IN  <<t % Base>> \o MulLimbC(a, m, i + 1, t \div Base)

RECURSIVE MulAt(_, _, _)
\* a * (b without its first i - 1 limbs)
MulAt(a, b, i) ==
    IF i > Len(b) THEN <<>>
    ELSE Add(MulLimbC(a, b[i], 1, 0), <<0>> \o MulAt(a, b, i + 1))

\* a * b
Mul(a, b) == Norm(MulAt(a, b, 1))

RECURSIVE DivDigits(_, _, _, _, _)
\* Long division of the decimal digits k..1 of one limb by d, carrying the
\* remainder r in and out; q collects the quotient's limb.
DivDigits(limb, d, k, r, q) ==
    IF k = 0 THEN [q |-> q, r |-> r]
    ELSE LET p   == IF k = 4 THEN 1000 ELSE IF k = 3 THEN 100
                    ELSE IF k = 2 THEN 10 ELSE 1
             cur == r * 10 + ((limb \div p) % 10)
         IN  DivDigits(limb, d, k - 1, cur % d, q * 10 + (cur \div d))

RECURSIVE DivAt(_, _, _, _)
DivAt(a, d, i, r) ==
    IF i = 0 THEN <<>>
    ELSE LET s == DivDigits(a[i], d, 4, r, 0)
         IN  DivAt(a, d, i - 1, s.r) \o <<s.q>>

\* floor(a / d) for a TLC integer 0 < d < 2^31 / 10
Div(a, d) == Norm(DivAt(a, d, Len(a), 0))

\* ------------------------------------------------------------------------
\* u64 arithmetic
\* ------------------------------------------------------------------------

\* u64::MAX = 2^64 - 1 = 18_446_744_073_709_551_615
U64_MAX == Big(<<1844, 6744, 737, 955, 1615>>)

\* Option::None of a checked operation.  A value that was to be unwrapped
\* from None stands for the panic of that unwrap: every operation below
\* passes None on, and the instruction that ends with None has panicked.
None == <<-1>>

\* u64::checked_add
checked_add(a, b) ==
    IF a = None \/ b = None THEN None
    ELSE LET s == Add(a, b) IN IF Leq(s, U64_MAX) THEN s ELSE None

\* u64::checked_sub
checked_sub(a, b) ==
    IF a = None \/ b = None THEN None
    ELSE IF Leq(b, a) THEN Sub(a, b) ELSE None

\* u64::saturating_mul in place of checked_mul.
saturating_mul(a, b) ==
    IF a = None \/ b = None THEN None
    ELSE LET p == Mul(a, b) IN IF Leq(p, U64_MAX) THEN p ELSE U64_MAX

\* u64::checked_mul
checked_mul(a, b) ==
    IF a = None \/ b = None THEN None
    ELSE LET p == Mul(a, b) IN IF Leq(p, U64_MAX) THEN p ELSE None

\* u64::checked_div by the literal d
checked_div(a, d) ==
    IF a = None THEN None
    ELSE IF d = 0 THEN None
    ELSE Div(a, d)

\* The plain `-` of two u64: the difference when it is representable;
\* otherwise the build decides (a panic with overflow checks on, the
\* difference modulo 2^64 with them off).
u64_sub(a, b) ==
    IF Leq(b, a) THEN {Sub(a, b)}
    ELSE {None, Sub(Add(Add(a, U64_MAX), N(1)), b)}

\* ------------------------------------------------------------------------
\* Reward arithmetic
\* ------------------------------------------------------------------------

\* Minimum stake, in base units (100 VERM at 6 decimals).
MIN_STAKE == 100000000

\* The reward rate a new pool starts with, in basis points.
INITIAL_REWARD_RATE == 24600

\* Basis points per unit.
BPS == 10000

slots_per_year == 63072000

\* Base units per whole token (6 decimals).
TOKEN_UNIT == 1000000

\* calculate_pending_rewards dividing by 10000 before multiplying by the rate.
calculate_pending_rewards_divide_first(amount_staked, rewards_debt, reward_rate, slots_elapsed) ==
    IF amount_staked = <<>> \/ slots_elapsed = <<>> THEN rewards_debt
    ELSE LET annual_rewards ==
                 checked_mul(checked_div(amount_staked, BPS), reward_rate)
             time_rewards ==
                 checked_div(checked_mul(annual_rewards, slots_elapsed),
                             slots_per_year)
         IN  checked_add(rewards_debt, time_rewards)

calculate_pending_rewards(amount_staked, rewards_debt, reward_rate, slots_elapsed) ==
    IF amount_staked = <<>> \/ slots_elapsed = <<>> THEN rewards_debt
    ELSE LET annual_rewards ==
                 checked_div(checked_mul(amount_staked, reward_rate), BPS)
             time_rewards ==
                 checked_div(checked_mul(annual_rewards, slots_elapsed),
                             slots_per_year)
         IN  checked_add(rewards_debt, time_rewards)

\* calculate_apr_tier with `>` for `>=`: the lower bounds are exclusive.
calculate_apr_tier_exclusive(amount_staked) ==
    LET amount_tokens == Div(amount_staked, TOKEN_UNIT)
    IN  IF Lt(N(10000), amount_tokens) THEN N(36900)
        ELSE IF Lt(N(5000), amount_tokens) THEN N(24600)
        ELSE IF Lt(N(1000), amount_tokens) THEN N(15300)
        ELSE IF Lt(N(500), amount_tokens) THEN N(9800)
        ELSE N(3690)

calculate_apr_tier(amount_staked) ==
    LET amount_tokens == Div(amount_staked, TOKEN_UNIT)
    IN  IF Leq(N(10000), amount_tokens) THEN N(36900)
        ELSE IF Leq(N(5000), amount_tokens) THEN N(24600)
        ELSE IF Leq(N(1000), amount_tokens) THEN N(15300)
        ELSE IF Leq(N(500), amount_tokens) THEN N(9800)
        ELSE N(3690)

\* ------------------------------------------------------------------------
\* Bounds of the model
\* ------------------------------------------------------------------------

\* The depositors.
Users == {"alice", "bob"}

\* The key that initializes the pool.
Admin == "admin"

\* How many stake, unstake and claim_rewards instructions that succeed a
\* behaviour holds.
MaxOps == 3

\* The slots the clock visits after slot 0: the next slot, and the slot one
\* year of slots after that.
Slots == {N(1), N(slots_per_year + 1)}

\* The amounts stake is called with: one below the minimum stake, the
\* minimum stake, 10^12 (a million tokens) and 10^15.
StakeAmounts == {N(MIN_STAKE - 1), N(MIN_STAKE), Big(<<1, 0, 0, 0>>),
                 Big(<<1000, 0, 0, 0>>)}

\* The amounts unstake is called with: the minimum stake, all of the
\* caller's stake, and one base unit more than that.
UnstakeChoices == {"min", "all", "too_much"}

\* What every depositor's token account holds at the start: 10^15 + 10^8.
InitialBalance == Big(<<1000, 0, 1, 0>>)

\* The bump seed handed to initialize, as far as the program can tell it
\* apart: the canonical bump of the pool's address, or another u8.
Bumps == {"canonical", "other"}

\* ------------------------------------------------------------------------
\* State
\* ------------------------------------------------------------------------

VARIABLES
    slot,                \* Clock::get()?.slot
    stake_pool,          \* the StakePool account
    user_account,        \* the UserAccount of each depositor
    vault_token_account, \* balance of the pool's vault token account
    user_token_account,  \* balance of each depositor's token account
    ops,                 \* history: successful stake/unstake/claim_rewards
    has_staked,          \* history: the depositors with a successful stake
    last                 \* history: the last instruction, its input, its
                         \* outcome and the state it started from

vars == <<slot, stake_pool, user_account, vault_token_account,
          user_token_account, ops, has_staked, last>>

NoKey == "none"

\* An account that `init` has not created yet.
NoStakePool ==
    [exists |-> FALSE, authority |-> NoKey, total_staked |-> <<>>,
     reward_rate |-> <<>>, bump |-> "none", last_update_slot |-> <<>>]

NoUserAccount ==
    [exists |-> FALSE, authority |-> NoKey, amount_staked |-> <<>>,
     rewards_debt |-> <<>>, last_stake_slot |-> <<>>]

NoTransfer == [from |-> "none", to |-> "none", amount |-> <<>>, status |-> "none"]

\* The state an instruction starts from.
Snapshot ==
    [slot |-> slot, stake_pool |-> stake_pool, user_account |-> user_account,
     vault_token_account |-> vault_token_account,
     user_token_account |-> user_token_account]

Init ==
    /\ slot = <<>>
    /\ stake_pool = NoStakePool
    /\ user_account = [u \in Users |-> NoUserAccount]
    /\ vault_token_account = <<>>
    /\ user_token_account = [u \in Users |-> InitialBalance]
    /\ ops = 0
    /\ has_staked = {}
    /\ last = [op |-> "none", user |-> NoKey, amount |-> <<>>,
               slots_elapsed |-> <<>>, result |-> "none",
               transfer |-> NoTransfer, pre |-> Snapshot]

\* ------------------------------------------------------------------------
\* The token program
\* ------------------------------------------------------------------------

\* The Accounts structs put no constraint on the two token accounts of an
\* instruction.  The model hands every instruction the caller's own token
\* account and the pool's vault, both of the staked mint.

\* token::transfer without its `?`: the error is dropped.
transfer_error_dropped(t) == FALSE

\* The `?` after token::transfer: the instruction returns the transfer's
\* error.
transfer_error_returned(t) == ~t.ok

\* token::transfer of amount between two balances of the staked mint, as
\* the token program performs it: it fails when the source holds less than
\* amount or the destination would overflow.
token_transfer(from_balance, to_balance, amount) ==
    IF Leq(amount, from_balance) /\ Leq(Add(to_balance, amount), U64_MAX)
    THEN [ok |-> TRUE, from |-> Sub(from_balance, amount),
          to |-> Add(to_balance, amount)]
    ELSE [ok |-> FALSE, from |-> from_balance, to |-> to_balance]

\* ------------------------------------------------------------------------
\* Instruction handlers.  A handler gives the instruction's result and the
\* accounts as the instruction leaves them.  An instruction that returns an
\* error or panics is rolled back whole by the runtime, the transfer it may
\* have made included: Aborted gives the accounts as they were.  The events
\* a handler emits are log entries; they are no part of the state.
\* ------------------------------------------------------------------------

Aborted(u, result, transfer) ==
    [result |-> result, transfer |-> transfer, stake_pool |-> stake_pool,
     account |-> user_account[u], vault |-> vault_token_account,
     wallet |-> user_token_account[u]]

\* initialize with the rate of an empty stake's tier.
initialize_at_lowest_tier(authority, bump) ==
    [exists |-> TRUE, authority |-> authority, total_staked |-> <<>>,
     reward_rate |-> calculate_apr_tier(<<>>), bump |-> bump,
     last_update_slot |-> slot]

initialize(authority, bump) ==
    [exists |-> TRUE, authority |-> authority, total_staked |-> <<>>,
     reward_rate |-> N(INITIAL_REWARD_RATE), bump |-> bump,
     last_update_slot |-> slot]

create_user_account(authority) ==
    [exists |-> TRUE, authority |-> authority, amount_staked |-> <<>>,
     rewards_debt |-> <<>>, last_stake_slot |-> <<>>]

\* The minimum-stake check with > in place of >=.
stake_amount_above_min(amount) == Lt(N(MIN_STAKE), amount)

\* require!(amount >= 100_000_000, StakeError::InsufficientAmount)
stake_amount_ok(amount) == Leq(N(MIN_STAKE), amount)

\* stake_ledger without line 55: the pool's total is not raised.
stake_ledger_keeps_total(u, amount, pending_rewards) ==
    LET acct == user_account[u]
        amount_staked == checked_add(acct.amount_staked, amount)
        rewards_debt == checked_add(acct.rewards_debt, pending_rewards)
    IN  IF amount_staked = None \/ rewards_debt = None
        THEN [ok |-> FALSE]
        ELSE [ok |-> TRUE,
              stake_pool |->
                  [stake_pool EXCEPT
                      !.last_update_slot = slot,
                      !.reward_rate = calculate_apr_tier(amount_staked)],
              account |->
                  [acct EXCEPT
                      !.amount_staked = amount_staked,
                      !.rewards_debt = rewards_debt,
                      !.last_stake_slot = slot]]

\* stake_ledger without line 64: the pool's rate is left as it was.
stake_ledger_keeps_rate(u, amount, pending_rewards) ==
    LET acct == user_account[u]
        total_staked == checked_add(stake_pool.total_staked, amount)
        amount_staked == checked_add(acct.amount_staked, amount)
        rewards_debt == checked_add(acct.rewards_debt, pending_rewards)
    IN  IF total_staked = None \/ amount_staked = None \/ rewards_debt = None
        THEN [ok |-> FALSE]
        ELSE [ok |-> TRUE,
              stake_pool |->
                  [stake_pool EXCEPT
                      !.total_staked = total_staked,
                      !.last_update_slot = slot],
              account |->
                  [acct EXCEPT
                      !.amount_staked = amount_staked,
                      !.rewards_debt = rewards_debt,
                      !.last_stake_slot = slot]]

\* stake_ledger with the rate looked up for the pool's total, not for the
\* caller's own stake.
stake_ledger_rate_of_total(u, amount, pending_rewards) ==
    LET acct == user_account[u]
        total_staked == checked_add(stake_pool.total_staked, amount)
        amount_staked == checked_add(acct.amount_staked, amount)
        rewards_debt == checked_add(acct.rewards_debt, pending_rewards)
    IN  IF total_staked = None \/ amount_staked = None \/ rewards_debt = None
        THEN [ok |-> FALSE]
        ELSE [ok |-> TRUE,
              stake_pool |->
                  [stake_pool EXCEPT
                      !.total_staked = total_staked,
                      !.last_update_slot = slot,
                      !.reward_rate = calculate_apr_tier(total_staked)],
              account |->
                  [acct EXCEPT
                      !.amount_staked = amount_staked,
                      !.rewards_debt = rewards_debt,
                      !.last_stake_slot = slot]]

\* stake_ledger storing the settled rewards in place of the debt, as unstake
\* does.
stake_ledger_replaces_debt(u, amount, pending_rewards) ==
    LET acct == user_account[u]
        total_staked == checked_add(stake_pool.total_staked, amount)
        amount_staked == checked_add(acct.amount_staked, amount)
    IN  IF total_staked = None \/ amount_staked = None
        THEN [ok |-> FALSE]
        ELSE [ok |-> TRUE,
              stake_pool |->
                  [stake_pool EXCEPT
                      !.total_staked = total_staked,
                      !.last_update_slot = slot,
                      !.reward_rate = calculate_apr_tier(amount_staked)],
              account |->
                  [acct EXCEPT
                      !.amount_staked = amount_staked,
                      !.rewards_debt = pending_rewards,
                      !.last_stake_slot = slot]]

\* The ledger writes of stake, once the transfer is done: the pool and the
\* caller's account as they leave it, unless a checked_add panics.
stake_ledger(u, amount, pending_rewards) ==
    LET acct == user_account[u]
        total_staked == checked_add(stake_pool.total_staked, amount)
        amount_staked == checked_add(acct.amount_staked, amount)
        rewards_debt == checked_add(acct.rewards_debt, pending_rewards)
    IN  IF total_staked = None \/ amount_staked = None \/ rewards_debt = None
        THEN [ok |-> FALSE]
        ELSE [ok |-> TRUE,
              stake_pool |->
                  [stake_pool EXCEPT
                      !.total_staked = total_staked,
                      !.last_update_slot = slot,
                      !.reward_rate = calculate_apr_tier(amount_staked)],
              account |->
                  [acct EXCEPT
                      !.amount_staked = amount_staked,
                      !.rewards_debt = rewards_debt,
                      !.last_stake_slot = slot]]

stake(u, amount, slots_elapsed) ==
    IF ~stake_amount_ok(amount)
    THEN Aborted(u, "InsufficientAmount", NoTransfer)
    ELSE IF slots_elapsed = None THEN Aborted(u, "Panic", NoTransfer)
    ELSE
    LET acct == user_account[u]
        pending_rewards ==
            calculate_pending_rewards(acct.amount_staked, acct.rewards_debt,
                                      stake_pool.reward_rate, slots_elapsed)
        t == token_transfer(user_token_account[u], vault_token_account, amount)
        request == [from |-> u, to |-> "vault", amount |-> amount]
        written == stake_ledger(u, amount, pending_rewards)
    IN  IF pending_rewards = None THEN Aborted(u, "Panic", NoTransfer)
        ELSE IF transfer_error_returned(t)
        THEN Aborted(u, "TransferFailed", request @@ [status |-> "failed"])
        ELSE IF ~written.ok
        THEN Aborted(u, "Panic", request @@ [status |-> "reverted"])
        ELSE [result |-> "Ok",
              transfer |-> request @@ [status |-> "done"],
              stake_pool |-> written.stake_pool,
              account |-> written.account,
              vault |-> t.to,
              wallet |-> t.from]

\* unstake without its require!: every amount is let through.
unstake_amount_unchecked(amount, amount_staked) == TRUE

\* require!(amount <= user_account.amount_staked, StakeError::InsufficientStake)
unstake_amount_ok(amount, amount_staked) == Leq(amount, amount_staked)

\* unstake_ledger without line 108: the pool's total is not lowered.
unstake_ledger_keeps_total(u, amount, pending_rewards) ==
    LET acct == user_account[u]
        amount_staked == checked_sub(acct.amount_staked, amount)
    IN  IF amount_staked = None
        THEN [ok |-> FALSE]
        ELSE [ok |-> TRUE,
              stake_pool |->
                  [stake_pool EXCEPT
                      !.last_update_slot = slot,
                      !.reward_rate = calculate_apr_tier(amount_staked)],
              account |->
                  [acct EXCEPT
                      !.amount_staked = amount_staked,
                      !.rewards_debt = pending_rewards,
                      !.last_stake_slot = slot]]

\* unstake_ledger adding the settled rewards to the debt, as stake does.
unstake_ledger_adds_debt(u, amount, pending_rewards) ==
    LET acct == user_account[u]
        total_staked == checked_sub(stake_pool.total_staked, amount)
        amount_staked == checked_sub(acct.amount_staked, amount)
        rewards_debt == checked_add(acct.rewards_debt, pending_rewards)
    IN  IF total_staked = None \/ amount_staked = None \/ rewards_debt = None
        THEN [ok |-> FALSE]
        ELSE [ok |-> TRUE,
              stake_pool |->
                  [stake_pool EXCEPT
                      !.total_staked = total_staked,
                      !.last_update_slot = slot,
                      !.reward_rate = calculate_apr_tier(amount_staked)],
              account |->
                  [acct EXCEPT
                      !.amount_staked = amount_staked,
                      !.rewards_debt = rewards_debt,
                      !.last_stake_slot = slot]]

\* The ledger writes of unstake, once the transfer is done.
unstake_ledger(u, amount, pending_rewards) ==
    LET acct == user_account[u]
        total_staked == checked_sub(stake_pool.total_staked, amount)
        amount_staked == checked_sub(acct.amount_staked, amount)
    IN  IF total_staked = None \/ amount_staked = None
        THEN [ok |-> FALSE]
        ELSE [ok |-> TRUE,
              stake_pool |->
                  [stake_pool EXCEPT
                      !.total_staked = total_staked,
                      !.last_update_slot = slot,
                      !.reward_rate = calculate_apr_tier(amount_staked)],
              account |->
                  [acct EXCEPT
                      !.amount_staked = amount_staked,
                      !.rewards_debt = pending_rewards,
                      !.last_stake_slot = slot]]

unstake(u, amount, slots_elapsed) ==
    IF ~unstake_amount_ok(amount, user_account[u].amount_staked)
    THEN Aborted(u, "InsufficientStake", NoTransfer)
    ELSE IF slots_elapsed = None THEN Aborted(u, "Panic", NoTransfer)
    ELSE
    LET acct == user_account[u]
        pending_rewards ==
            calculate_pending_rewards(acct.amount_staked, acct.rewards_debt,
                                      stake_pool.reward_rate, slots_elapsed)
        t == token_transfer(vault_token_account, user_token_account[u], amount)
        request == [from |-> "vault", to |-> u, amount |-> amount]
        written == unstake_ledger(u, amount, pending_rewards)
    IN  IF pending_rewards = None THEN Aborted(u, "Panic", NoTransfer)
        ELSE IF transfer_error_returned(t)
        THEN Aborted(u, "TransferFailed", request @@ [status |-> "failed"])
        ELSE IF ~written.ok
        THEN Aborted(u, "Panic", request @@ [status |-> "reverted"])
        ELSE [result |-> "Ok",
              transfer |-> request @@ [status |-> "done"],
              stake_pool |-> written.stake_pool,
              account |-> written.account,
              vault |-> t.from,
              wallet |-> t.to]

\* claim_rewards without its require!: a claim of nothing goes on.
has_rewards_unchecked(pending_rewards) == TRUE

\* require!(pending_rewards > 0, StakeError::NoRewards)
has_rewards(pending_rewards) == pending_rewards # <<>>

\* claim_ledger without line 159: the debt is paid out and kept.
claim_ledger_keeps_debt(u) ==
    [ok |-> TRUE,
     stake_pool |-> stake_pool,
     account |-> [user_account[u] EXCEPT !.last_stake_slot = slot]]

\* claim_ledger without line 160: last_stake_slot is left as it was.
claim_ledger_keeps_slot(u) ==
    [ok |-> TRUE,
     stake_pool |-> stake_pool,
     account |-> [user_account[u] EXCEPT !.rewards_debt = <<>>]]

\* The ledger writes of claim_rewards, once the transfer is done.
claim_ledger(u) ==
    [ok |-> TRUE,
     stake_pool |-> stake_pool,
     account |-> [user_account[u] EXCEPT
                     !.rewards_debt = <<>>,
                     !.last_stake_slot = slot]]

claim_rewards(u, slots_elapsed) ==
    IF slots_elapsed = None THEN Aborted(u, "Panic", NoTransfer)
    ELSE
    LET acct == user_account[u]
        pending_rewards ==
            calculate_pending_rewards(acct.amount_staked, acct.rewards_debt,
                                      stake_pool.reward_rate, slots_elapsed)
        t == token_transfer(vault_token_account, user_token_account[u],
                            pending_rewards)
        request == [from |-> "vault", to |-> u, amount |-> pending_rewards]
        written == claim_ledger(u)
    IN  IF pending_rewards = None THEN Aborted(u, "Panic", NoTransfer)
        ELSE IF ~has_rewards(pending_rewards)
        THEN Aborted(u, "NoRewards", NoTransfer)
        ELSE IF transfer_error_returned(t)
        THEN Aborted(u, "TransferFailed", request @@ [status |-> "failed"])
        ELSE [result |-> "Ok",
              transfer |-> request @@ [status |-> "done"],
              stake_pool |-> written.stake_pool,
              account |-> written.account,
              vault |-> t.from,
              wallet |-> t.to]

\* ------------------------------------------------------------------------
\* Instructions: the account validation of the instruction's Accounts
\* struct, then its handler, then the commit of what the handler left.
\* ------------------------------------------------------------------------

\* The accounts of stake, unstake and claim_rewards called by u pass
\* validation: the pool exists at the address its stored bump derives, and
\* u's user account exists.
AccountsValid(u) ==
    /\ stake_pool.exists
    /\ stake_pool.bump = "canonical"
    /\ user_account[u].exists

\* Commit with the user account's address derived without the authority's
\* key: every user's account is one and the same account.
Commit_shared_account(op, u, amount, slots_elapsed, o) ==
    /\ stake_pool' = o.stake_pool
    /\ user_account' =
           [v \in Users |-> IF user_account[v].exists
                            THEN [o.account EXCEPT !.authority = v]
                            ELSE user_account[v]]
    /\ vault_token_account' = o.vault
    /\ user_token_account' = [user_token_account EXCEPT ![u] = o.wallet]
    /\ ops' = IF o.result = "Ok" THEN ops + 1 ELSE ops
    /\ has_staked' = IF op = "stake" /\ o.result = "Ok"
                     THEN has_staked \cup {u} ELSE has_staked
    /\ last' = [op |-> op, user |-> u, amount |-> amount,
                slots_elapsed |-> slots_elapsed,
                result |-> o.result, transfer |-> o.transfer,
                pre |-> Snapshot]
    /\ UNCHANGED slot

Commit(op, u, amount, slots_elapsed, o) ==
    /\ stake_pool' = o.stake_pool
    /\ user_account' = [user_account EXCEPT ![u] = o.account]
    /\ vault_token_account' = o.vault
    /\ user_token_account' = [user_token_account EXCEPT ![u] = o.wallet]
    /\ ops' = IF o.result = "Ok" THEN ops + 1 ELSE ops
    /\ has_staked' = IF op = "stake" /\ o.result = "Ok"
                     THEN has_staked \cup {u} ELSE has_staked
    /\ last' = [op |-> op, user |-> u, amount |-> amount,
                slots_elapsed |-> slots_elapsed,
                result |-> o.result, transfer |-> o.transfer,
                pre |-> Snapshot]
    /\ UNCHANGED slot

\* The amount of an unstake of u, for each of the UnstakeChoices.
UnstakeAmount(u, k) ==
    IF k = "min" THEN N(MIN_STAKE)
    ELSE IF k = "all" THEN user_account[u].amount_staked
    ELSE Add(user_account[u].amount_staked, N(1))

Initialize(authority, bump) ==
    /\ ~stake_pool.exists
    /\ stake_pool' = initialize(authority, bump)
    /\ last' = [op |-> "initialize", user |-> authority, amount |-> <<>>,
                slots_elapsed |-> <<>>, result |-> "Ok",
                transfer |-> NoTransfer, pre |-> Snapshot]
    /\ UNCHANGED <<slot, user_account, vault_token_account,
                   user_token_account, ops, has_staked>>

CreateUserAccount(authority) ==
    /\ ~user_account[authority].exists
    /\ user_account' =
           [user_account EXCEPT ![authority] = create_user_account(authority)]
    /\ last' = [op |-> "create_user_account", user |-> authority,
                amount |-> <<>>, slots_elapsed |-> <<>>,
                result |-> "Ok", transfer |-> NoTransfer, pre |-> Snapshot]
    /\ UNCHANGED <<slot, stake_pool, vault_token_account,
                   user_token_account, ops, has_staked>>

Stake(u, amount) ==
    /\ ops < MaxOps
    /\ AccountsValid(u)
    /\ \E slots_elapsed \in u64_sub(slot, user_account[u].last_stake_slot) :
           Commit("stake", u, amount, slots_elapsed,
                  stake(u, amount, slots_elapsed))

Unstake(u, amount) ==
    /\ ops < MaxOps
    /\ AccountsValid(u)
    /\ \E slots_elapsed \in u64_sub(slot, user_account[u].last_stake_slot) :
           Commit("unstake", u, amount, slots_elapsed,
                  unstake(u, amount, slots_elapsed))

ClaimRewards(u) ==
    /\ ops < MaxOps
    /\ AccountsValid(u)
    /\ \E slots_elapsed \in u64_sub(slot, user_account[u].last_stake_slot) :
           Commit("claim_rewards", u, <<>>, slots_elapsed,
                  claim_rewards(u, slots_elapsed))

\* The cluster's clock moves on; it never moves back.
AdvanceClock(s) ==
    /\ Lt(slot, s)
    /\ slot' = s
    /\ last' = [op |-> "advance_clock", user |-> NoKey, amount |-> <<>>,
                slots_elapsed |-> <<>>, result |-> "Ok",
                transfer |-> NoTransfer, pre |-> Snapshot]
    /\ UNCHANGED <<stake_pool, user_account, vault_token_account,
                   user_token_account, ops, has_staked>>

Next ==
    \/ \E b \in Bumps : Initialize(Admin, b)
    \/ \E a \in Users : CreateUserAccount(a)
    \/ \E u \in Users, amount \in StakeAmounts : Stake(u, amount)
    \/ \E u \in Users, k \in UnstakeChoices : Unstake(u, UnstakeAmount(u, k))
    \/ \E u \in Users : ClaimRewards(u)
    \/ \E s \in Slots : AdvanceClock(s)

Spec == Init /\ [][Next]_vars

\* ------------------------------------------------------------------------
\* Properties
\* ------------------------------------------------------------------------

\* The caller of the last instruction, and the accounts before and after.
Caller == last.user
PreAccount == last.pre.user_account[Caller]
PostAccount == user_account[Caller]

\* The last instruction is one of the three that move tokens.
IsTokenOp == last.op \in {"stake", "unstake", "claim_rewards"}

\* The last instruction left the pool, every user account and every token
\* balance as it found them.
NothingChanged ==
    /\ stake_pool = last.pre.stake_pool
    /\ user_account = last.pre.user_account
    /\ vault_token_account = last.pre.vault_token_account
    /\ user_token_account = last.pre.user_token_account

\* x is a u64: limbs in range, no high zero limb, at most 2^64 - 1.
IsU64(x) ==
    /\ \A i \in 1..Len(x) : x[i] \in 0..(Base - 1)
    /\ x = Norm(x)
    /\ Leq(x, U64_MAX)

\* The rewards settled for an account at a rate over elapsed slots, in
\* unbounded arithmetic.
ExactAnnual(acct, rate) == Div(Mul(acct.amount_staked, rate), 10000)
ExactTimeRewards(acct, rate, elapsed) ==
    Div(Mul(ExactAnnual(acct, rate), elapsed), 63072000)
ExactPending(acct, rate, elapsed) ==
    IF acct.amount_staked = <<>> \/ elapsed = <<>> THEN acct.rewards_debt
    ELSE Add(acct.rewards_debt, ExactTimeRewards(acct, rate, elapsed))

\* The pending rewards the last instruction settled for its caller.
SettledPending ==
    ExactPending(PreAccount, last.pre.stake_pool.reward_rate, last.slots_elapsed)

RECURSIVE SumStaked(_)
\* The sum of amount_staked over the user accounts of S.
SumStaked(S) ==
    IF S = {} THEN <<>>
    ELSE LET u == CHOOSE x \in S : TRUE
         IN  Add(user_account[u].amount_staked, SumStaked(S \ {u}))

\* C1: in every reachable state the pool's total_staked equals the sum of
\* amount_staked over all user accounts.
C1_TotalStakedIsSum == stake_pool.total_staked = SumStaked(Users)

\* Both depositors hold a stake, of different sizes, and the last
\* instruction was aborted.
C1_Witness ==
    /\ user_account["alice"].amount_staked # <<>>
    /\ user_account["bob"].amount_staked # <<>>
    /\ user_account["alice"].amount_staked # user_account["bob"].amount_staked
    /\ IsTokenOp
    /\ last.result # "Ok"

\* The balance of a token account as the last instruction found it.
PreBalance(name) ==
    IF name = "vault" THEN last.pre.vault_token_account
    ELSE last.pre.user_token_account[name]

\* The last instruction requested a transfer that the token program fails.
TransferFails ==
    /\ last.transfer.status # "none"
    /\ ~token_transfer(PreBalance(last.transfer.from),
                       PreBalance(last.transfer.to), last.transfer.amount).ok

\* C2: when the token transfer requested by stake, unstake or claim_rewards
\* fails, the instruction fails and every field of the pool and of the
\* caller's user account is what it was before the call.
C2_TransferFailureChangesNothing ==
    TransferFails =>
        /\ IsTokenOp
        /\ last.result # "Ok"
        /\ stake_pool = last.pre.stake_pool
        /\ PostAccount = PreAccount
        /\ NothingChanged

\* An unstake of a depositor whose stake the vault can no longer pay out.
C2_Witness ==
    /\ TransferFails
    /\ last.op = "unstake"
    /\ PreAccount.amount_staked # <<>>

\* The outcome of unstake(amount) called by the last caller now, in the
\* slot of the last instruction.
UnstakeNow(amount) == unstake(Caller, amount, <<>>)

\* C3: a successful stake(X), X >= 100_000_000, with no slot elapsed since
\* the caller's last activity, followed at once by a successful unstake(X)
\* in the same slot, leaves total_staked, the caller's amount_staked and
\* the caller's rewards_debt at their values before the stake.
C3_StakeUnstakeRoundTrip ==
    (/\ last.op = "stake"
     /\ last.result = "Ok"
     /\ last.slots_elapsed = <<>>
     /\ UnstakeNow(last.amount).result = "Ok")
    => /\ UnstakeNow(last.amount).stake_pool.total_staked
              = last.pre.stake_pool.total_staked
       /\ UnstakeNow(last.amount).account.amount_staked
              = PreAccount.amount_staked
       /\ UnstakeNow(last.amount).account.rewards_debt
              = PreAccount.rewards_debt

\* The vault can pay amount out to the caller of the last instruction.
VaultCanPay(amount) ==
    token_transfer(last.pre.vault_token_account,
                   last.pre.user_token_account[Caller], amount).ok

\* C4: an unstake of all of the caller's amount_staked succeeds whenever
\* the transfer from the vault succeeds, whatever the amount and the slots
\* elapsed, and leaves the caller's amount_staked at 0.
C4_FullUnstakeSucceeds ==
    (/\ last.op = "unstake"
     /\ last.amount = PreAccount.amount_staked
     /\ VaultCanPay(last.amount))
    => /\ last.result = "Ok"
       /\ PostAccount.amount_staked = <<>>

\* C5: unstake(amount) with amount above the caller's amount_staked fails
\* with InsufficientStake, requests no transfer and leaves the pool and the
\* caller's account unchanged; every amount_staked and the pool's
\* total_staked stay within 0 .. 2^64 - 1.
C5_InsufficientStake ==
    /\ (last.op = "unstake" /\ Lt(PreAccount.amount_staked, last.amount))
       => /\ last.result = "InsufficientStake"
          /\ last.transfer = NoTransfer
          /\ stake_pool = last.pre.stake_pool
          /\ PostAccount = PreAccount
          /\ NothingChanged
    /\ IsU64(stake_pool.total_staked)
    /\ \A u \in Users : IsU64(user_account[u].amount_staked)

\* An unstake of one base unit more than a non-zero stake.
C5_Witness ==
    /\ last.op = "unstake"
    /\ PreAccount.amount_staked # <<>>
    /\ last.amount = Add(PreAccount.amount_staked, N(1))
    /\ last.result = "InsufficientStake"

\* A step of the settlement of the last instruction (which multiplies only
\* for a stake that is not 0 over slots that are not 0) is not
\* representable in a u64.
SettlementOverflows ==
    /\ PreAccount.amount_staked # <<>>
    /\ last.slots_elapsed # <<>>
    /\ \/ Lt(U64_MAX, Mul(PreAccount.amount_staked,
                          last.pre.stake_pool.reward_rate))
       \/ Lt(U64_MAX, Mul(ExactAnnual(PreAccount,
                                      last.pre.stake_pool.reward_rate),
                          last.slots_elapsed))
       \/ Lt(U64_MAX, SettledPending)

\* A step of the last stake's arithmetic is not representable in a u64.
StakeOverflows ==
    \/ SettlementOverflows
    \/ Lt(U64_MAX, Add(PreAccount.rewards_debt, SettledPending))
    \/ Lt(U64_MAX, Add(PreAccount.amount_staked, last.amount))
    \/ Lt(U64_MAX, Add(last.pre.stake_pool.total_staked, last.amount))

\* C6: stake(amount) fails with InsufficientAmount exactly when
\* amount < 100_000_000, and then requests no transfer and changes no
\* ledger field; stake(100_000_000) succeeds when the transfer succeeds
\* and no arithmetic step overflows.
C6_MinimumStake ==
    last.op = "stake" =>
        /\ last.result = "InsufficientAmount" <=> Lt(last.amount, N(100000000))
        /\ last.result = "InsufficientAmount"
               => last.transfer = NoTransfer /\ NothingChanged
        /\ (/\ last.amount = N(100000000)
            /\ Leq(last.amount, last.pre.user_token_account[Caller])
            /\ ~StakeOverflows)
           => last.result = "Ok"

\* A stake of 99_999_999 was refused, after a stake of 100_000_000 by the
\* same depositor went through.
C6_Witness ==
    /\ last.op = "stake"
    /\ last.amount = N(99999999)
    /\ last.result = "InsufficientAmount"
    /\ PreAccount.amount_staked = N(100000000)

\* C7: claim_rewards fails with NoRewards, requesting no transfer and
\* changing no ledger field, whenever the settled pending rewards are 0; a
\* depositor who has created an account and never staked gets NoRewards at
\* any slot.
C7_NoRewards ==
    last.op = "claim_rewards" =>
        /\ SettledPending = <<>>
               => /\ last.result = "NoRewards"
                  /\ last.transfer = NoTransfer
                  /\ NothingChanged
        /\ Caller \notin has_staked => last.result = "NoRewards"

\* A claim, a year of slots after the pool took its first stake, by a
\* depositor who never staked.
C7_Witness ==
    /\ last.op = "claim_rewards"
    /\ Caller \notin has_staked
    /\ has_staked # {}
    /\ Lt(N(1), slot)
    /\ last.result = "NoRewards"

\* C8 as claimed: right after initialize the pool's reward rate is the
\* lowest tier's rate, 3_690 bps, and total_staked is 0.
C8_InitialRateIsLowestTier ==
    last.op = "initialize" =>
        /\ stake_pool.reward_rate = N(3690)
        /\ stake_pool.total_staked = <<>>

\* C8 as amended: right after initialize the pool's reward rate is
\* 24_600 bps (the rate of the 5_000-token tier) and total_staked is 0.
C8_InitialRate ==
    last.op = "initialize" =>
        /\ stake_pool.reward_rate = N(24600)
        /\ stake_pool.total_staked = <<>>

\* The pool has just been initialized, after the clock had moved on.
C8_Witness ==
    /\ last.op = "initialize"
    /\ stake_pool.exists
    /\ slot # <<>>

\* A step of the last unstake's arithmetic is not representable in a u64.
UnstakeOverflows ==
    \/ SettlementOverflows
    \/ Lt(last.pre.stake_pool.total_staked, last.amount)
    \/ Lt(PreAccount.amount_staked, last.amount)

\* A step of the last claim's arithmetic is not representable in a u64.
ClaimOverflows ==
    \/ SettlementOverflows

\* A step of the last instruction's arithmetic is not representable.
Overflows ==
    /\ last.slots_elapsed # None
    /\ \/ last.op = "stake" /\ StakeOverflows
       \/ last.op = "unstake" /\ UnstakeOverflows
       \/ last.op = "claim_rewards" /\ ClaimOverflows

\* C9: when a step of the arithmetic of stake, unstake or claim_rewards is
\* not representable in a u64, the instruction aborts and no ledger field
\* changes; every stored field is within 0 .. 2^64 - 1.
C9_CheckedArithmetic ==
    /\ Overflows => last.result # "Ok" /\ NothingChanged
    /\ IsU64(stake_pool.total_staked)
    /\ IsU64(stake_pool.reward_rate)
    /\ IsU64(stake_pool.last_update_slot)
    /\ \A u \in Users :
           /\ IsU64(user_account[u].amount_staked)
           /\ IsU64(user_account[u].rewards_debt)
           /\ IsU64(user_account[u].last_stake_slot)

\* An instruction of a depositor with a stake panicked on a product that
\* does not fit a u64.
C9_Witness ==
    /\ IsTokenOp
    /\ Overflows
    /\ PreAccount.amount_staked # <<>>
    /\ last.result = "Panic"

\* C10: a successful claim_rewards transfers the settled pending amount
\* from the vault to the caller, sets the caller's rewards_debt to 0 and
\* last_stake_slot to the current slot, and leaves the caller's
\* amount_staked and every field of the pool unchanged.
C10_ClaimEffect ==
    (last.op = "claim_rewards" /\ last.result = "Ok") =>
        /\ last.transfer = [from |-> "vault", to |-> Caller,
                            amount |-> SettledPending, status |-> "done"]
        /\ Add(vault_token_account, SettledPending)
               = last.pre.vault_token_account
        /\ user_token_account[Caller]
               = Add(last.pre.user_token_account[Caller], SettledPending)
        /\ PostAccount.rewards_debt = <<>>
        /\ PostAccount.last_stake_slot = slot
        /\ PostAccount.amount_staked = PreAccount.amount_staked
        /\ PostAccount.authority = PreAccount.authority
        /\ stake_pool = last.pre.stake_pool

\* A claim that paid out rewards accrued on a stake since an earlier slot.
C10_Witness ==
    /\ last.op = "claim_rewards"
    /\ last.result = "Ok"
    /\ PreAccount.amount_staked # <<>>
    /\ last.slots_elapsed # <<>>
    /\ SettledPending # <<>>

\* C11: across a step, total_staked rises only in a successful stake, by
\* the staked amount; falls only in a successful unstake, by the unstaked
\* amount; and is left alone by claim_rewards, create_user_account and
\* every failed instruction.
C11_TotalStakedSteps ==
    /\ (last.op = "stake" /\ last.result = "Ok")
           => stake_pool.total_staked
                  = Add(last.pre.stake_pool.total_staked, last.amount)
    /\ (last.op = "unstake" /\ last.result = "Ok")
           => Add(stake_pool.total_staked, last.amount)
                  = last.pre.stake_pool.total_staked
    /\ ~(last.op \in {"stake", "unstake"} /\ last.result = "Ok")
           => stake_pool.total_staked = last.pre.stake_pool.total_staked

\* An unstake took a part of what the pool held for two depositors.
C11_Witness ==
    /\ last.op = "unstake"
    /\ last.result = "Ok"
    /\ last.amount # <<>>
    /\ stake_pool.total_staked # <<>>
    /\ stake_pool.total_staked # PostAccount.amount_staked

\* ------------------------------------------------------------------------
\* The two pure functions, called on drawn arguments
\* ------------------------------------------------------------------------

\* Under PureSpec no instruction runs: `last` holds one call of
\* calculate_pending_rewards or calculate_apr_tier, its arguments, and, once
\* the call is made, what it returned (None for a panic).

\* The rates the program ever stores.
Rates == {N(3690), N(9800), N(15300), N(INITIAL_REWARD_RATE), N(36900)}

\* Staked amounts: none, one base unit, the minimum stake, 1,000 tokens,
\* a million tokens, a thousand million tokens, and the largest u64.
PendingAmounts ==
    {<<>>, N(1), N(MIN_STAKE), Big(<<10, 0, 0>>), Big(<<1, 0, 0, 0>>),
     Big(<<1000, 0, 0, 0>>), U64_MAX}

\* Unclaimed rewards carried into the call.
PendingDebts == {<<>>, N(5), Big(<<24, 6000, 0>>), U64_MAX}

\* Elapsed slots: none, one, a year less one slot, a year, a year and a
\* slot, and the largest u64.
ElapsedSlots ==
    {<<>>, N(1), N(slots_per_year - 1), N(slots_per_year),
     N(slots_per_year + 1), U64_MAX}

\* Amounts on both sides of every tier boundary.
TierAmounts ==
    {<<>>, N(1), Big(<<4, 9900, 0>>), Big(<<4, 9999, 9999>>),
     Big(<<5, 0, 0>>), Big(<<9, 9999, 9999>>), Big(<<10, 0, 0>>),
     Big(<<49, 9999, 9999>>), Big(<<50, 0, 0>>), Big(<<99, 9900, 0>>),
     Big(<<99, 9999, 9999>>), Big(<<100, 0, 0>>), Big(<<1000, 0, 0, 0>>),
     U64_MAX}

PureCalls ==
    {[fn |-> "calculate_pending_rewards", args |-> <<a, d, r, e>>] :
         a \in PendingAmounts, d \in PendingDebts, r \in Rates,
         e \in ElapsedSlots}
    \cup {[fn |-> "calculate_apr_tier", args |-> <<a>>] : a \in TierAmounts}

PureInit ==
    /\ slot = <<>>
    /\ stake_pool = NoStakePool
    /\ user_account = [u \in Users |-> NoUserAccount]
    /\ vault_token_account = <<>>
    /\ user_token_account = [u \in Users |-> InitialBalance]
    /\ ops = 0
    /\ has_staked = {}
    /\ \E c \in PureCalls :
           last = [fn |-> c.fn, args |-> c.args, returned |-> FALSE,
                   result |-> <<>>]

CallPendingRewards ==
    /\ last.fn = "calculate_pending_rewards"
    /\ ~last.returned
    /\ last' = [last EXCEPT
                   !.returned = TRUE,
                   !.result = calculate_pending_rewards(
                                  last.args[1], last.args[2],
                                  last.args[3], last.args[4])]
    /\ UNCHANGED <<slot, stake_pool, user_account, vault_token_account,
                   user_token_account, ops, has_staked>>

CallAprTier ==
    /\ last.fn = "calculate_apr_tier"
    /\ ~last.returned
    /\ last' = [last EXCEPT
                   !.returned = TRUE,
                   !.result = calculate_apr_tier(last.args[1])]
    /\ UNCHANGED <<slot, stake_pool, user_account, vault_token_account,
                   user_token_account, ops, has_staked>>

PureNext == CallPendingRewards \/ CallAprTier

PureSpec == PureInit /\ [][PureNext]_vars

\* The call `last` holds has returned from calculate_pending_rewards.
PendingReturned == last.fn = "calculate_pending_rewards" /\ last.returned

\* The arguments of that call, as an account and the rest.
PendingArgAccount ==
    [amount_staked |-> last.args[1], rewards_debt |-> last.args[2]]
PendingArgRate == last.args[3]
PendingArgElapsed == last.args[4]

\* C12: calculate_pending_rewards returns rewards_debt unchanged when
\* amount_staked = 0 or slots_elapsed = 0, and otherwise rewards_debt +
\* floor(floor(amount_staked * reward_rate / 10000) * slots_elapsed /
\* 63,072,000), multiplying before dividing: whenever both products and the
\* sum fit a u64 it returns exactly that, and it panics when one does not;
\* (1,000,000,000, 0, 24600, 63,072,000) gives 2,460,000,000.
C12_PendingRewardsValue ==
    PendingReturned =>
        /\ (PendingArgAccount.amount_staked = <<>> \/ PendingArgElapsed = <<>>)
               => last.result = PendingArgAccount.rewards_debt
        /\ (PendingArgAccount.amount_staked # <<>> /\ PendingArgElapsed # <<>>)
               => IF /\ IsU64(Mul(PendingArgAccount.amount_staked,
                                  PendingArgRate))
                     /\ IsU64(Mul(ExactAnnual(PendingArgAccount,
                                              PendingArgRate),
                                  PendingArgElapsed))
                     /\ IsU64(ExactPending(PendingArgAccount, PendingArgRate,
                                           PendingArgElapsed))
                  THEN last.result
                           = Add(PendingArgAccount.rewards_debt,
                                 Div(Mul(Div(Mul(PendingArgAccount.amount_staked,
                                                 PendingArgRate), 10000),
                                         PendingArgElapsed), 63072000))
                  ELSE last.result = None
        /\ last.args = <<Big(<<10, 0, 0>>), <<>>, N(24600), N(63072000)>>
               => last.result = Big(<<24, 6000, 0>>)

\* The call of the claim's example has returned 2,460,000,000.
C12_Witness ==
    /\ PendingReturned
    /\ last.args = <<Big(<<10, 0, 0>>), <<>>, N(24600), N(63072000)>>
    /\ last.result = Big(<<24, 6000, 0>>)

\* The call `last` holds has returned from calculate_apr_tier.
TierReturned == last.fn = "calculate_apr_tier" /\ last.returned

\* The whole tokens of the amount of that call: the t with
\* t * 1,000,000 <= amount < (t + 1) * 1,000,000.
TierArgTokens ==
    CHOOSE t \in {Div(last.args[1], 1000000)} :
        /\ Leq(Mul(t, N(1000000)), last.args[1])
        /\ Lt(last.args[1], Mul(Add(t, N(1)), N(1000000)))

\* C13: calculate_apr_tier is a step function of the whole tokens
\* floor(amount / 1,000,000) with inclusive lower bounds: 36900 from 10,000
\* tokens, 24600 from 5,000, 15300 from 1,000, 9800 from 500, 3690 below;
\* 10,000,000,000 base units give 36900, 9,999,000,000 give 24600 and
\* 499,000,000 give 3690.
C13_AprTierSteps ==
    TierReturned =>
        /\ Leq(N(10000), TierArgTokens) => last.result = N(36900)
        /\ (Leq(N(5000), TierArgTokens) /\ Lt(TierArgTokens, N(10000)))
               => last.result = N(24600)
        /\ (Leq(N(1000), TierArgTokens) /\ Lt(TierArgTokens, N(5000)))
               => last.result = N(15300)
        /\ (Leq(N(500), TierArgTokens) /\ Lt(TierArgTokens, N(1000)))
               => last.result = N(9800)
        /\ Lt(TierArgTokens, N(500)) => last.result = N(3690)
        /\ last.args = <<Big(<<100, 0, 0>>)>> => last.result = N(36900)
        /\ last.args = <<Big(<<99, 9900, 0>>)>> => last.result = N(24600)
        /\ last.args = <<Big(<<4, 9900, 0>>)>> => last.result = N(3690)

\* The call on exactly 10,000 tokens has returned the top rate.
C13_Witness ==
    /\ TierReturned
    /\ last.args = <<Big(<<100, 0, 0>>)>>
    /\ TierArgTokens = N(10000)
    /\ last.result = N(36900)

\* ------------------------------------------------------------------------
\* Two runs of one user, with and without another user's stake
\* ------------------------------------------------------------------------

\* User a has just been paid a claim at slot 63,072,001 after staking the
\* minimum at slot 0 and doing nothing else that succeeded.
StakedMinThenClaimed(a) ==
    /\ last.op = "claim_rewards"
    /\ last.result = "Ok"
    /\ last.user = a
    /\ last.pre.user_account[a].amount_staked = N(MIN_STAKE)
    /\ last.pre.user_account[a].rewards_debt = <<>>
    /\ last.pre.user_account[a].last_stake_slot = <<>>
    /\ last.slots_elapsed = N(slots_per_year + 1)
    /\ slot = N(slots_per_year + 1)

\* In the first run nothing else succeeded: a's stake and claim are the two
\* instructions that did.
RunAlone(a) == StakedMinThenClaimed(a) /\ ops = 2

\* In the second run b staked a million tokens at slot 0, and that is all
\* that differs: three instructions succeeded.  b's stake came after a's:
\* the rate a's claim found in the pool is not the one a's stake stored.
RunWithOther(a, b) ==
    /\ StakedMinThenClaimed(a)
    /\ ops = 3
    /\ user_account[b].amount_staked = Big(<<1, 0, 0, 0>>)
    /\ user_account[b].last_stake_slot = <<>>
    /\ last.pre.stake_pool.reward_rate
           # calculate_apr_tier(last.pre.user_account[a].amount_staked)

\* C14: a user's rewards depend on another user's operations.  User a does
\* the same in two runs, stake(100,000,000) at slot 0 and claim_rewards at
\* slot 63,072,001; the runs differ only in b's stake in between, which
\* overwrites the pool's reward_rate.  Every run without b's stake pays a
\* 36,900,000 and every run with it pays a 369,000,005.
C14_RewardsDependOnOtherUser ==
    \A a \in Users : \A b \in Users \ {a} :
        /\ RunAlone(a) => last.transfer.amount = Big(<<3690, 0>>)
        /\ RunWithOther(a, b) => last.transfer.amount = Big(<<3, 6900, 5>>)

\* The run with b's stake in between has paid a ten times what the run
\* without it pays.
C14_Witness ==
    \E a \in Users : \E b \in Users \ {a} :
        /\ RunWithOther(a, b)
        /\ last.transfer.amount = Big(<<3, 6900, 5>>)
        /\ last.transfer.amount # Big(<<3690, 0>>)
        /\ last.pre.stake_pool.reward_rate
               = calculate_apr_tier(user_account[b].amount_staked)

\* The rate of the tier table for an amount of base units, with the
\* boundaries written out in base units.
TierRate(amount) ==
    IF Leq(Big(<<100, 0, 0>>), amount) THEN N(36900)
    ELSE IF Leq(Big(<<50, 0, 0>>), amount) THEN N(24600)
    ELSE IF Leq(Big(<<10, 0, 0>>), amount) THEN N(15300)
    ELSE IF Leq(Big(<<5, 0, 0>>), amount) THEN N(9800)
    ELSE N(3690)

\* C15: after every successful stake or unstake the pool's reward_rate is
\* the tier rate of the caller's own new amount_staked, not of the pool's
\* total_staked, and the rewards settled inside that instruction were
\* computed at the rate stored before it.
C15_RateFromCallerStake ==
    (last.op \in {"stake", "unstake"} /\ last.result = "Ok") =>
        /\ stake_pool.reward_rate = TierRate(PostAccount.amount_staked)
        /\ last.op = "stake"
               => PostAccount.rewards_debt
                      = Add(PreAccount.rewards_debt,
                            ExactPending(PreAccount,
                                         last.pre.stake_pool.reward_rate,
                                         last.slots_elapsed))
        /\ last.op = "unstake"
               => PostAccount.rewards_debt
                      = ExactPending(PreAccount,
                                     last.pre.stake_pool.reward_rate,
                                     last.slots_elapsed)

\* A stake settled a year of rewards at the old rate and stored a new rate,
\* the one of the caller's stake, which is not the one of the pool's total.
C15_Witness ==
    /\ last.op = "stake"
    /\ last.result = "Ok"
    /\ PreAccount.amount_staked # <<>>
    /\ last.slots_elapsed # <<>>
    /\ stake_pool.reward_rate # last.pre.stake_pool.reward_rate
    /\ stake_pool.reward_rate = TierRate(PostAccount.amount_staked)
    /\ stake_pool.reward_rate # TierRate(stake_pool.total_staked)
    /\ ExactPending(PreAccount, last.pre.stake_pool.reward_rate,
                    last.slots_elapsed)
           # ExactPending(PreAccount, stake_pool.reward_rate,
                          last.slots_elapsed)

\* C16: after a successful stake(amount) the caller's amount_staked is its
\* previous value plus amount, and rewards_debt is the pending value the
\* stake computed first (the previous debt plus the time reward at the rate
\* stored before the stake) plus the previous rewards_debt.
C16_StakeEffect ==
    (last.op = "stake" /\ last.result = "Ok") =>
        /\ PostAccount.amount_staked
               = Add(PreAccount.amount_staked, last.amount)
        /\ PostAccount.rewards_debt
               = Add(SettledPending, PreAccount.rewards_debt)

\* A stake was made on an account that held a stake and carried a debt:
\* the new debt holds the old one twice.
C16_Witness ==
    /\ last.op = "stake"
    /\ last.result = "Ok"
    /\ PreAccount.rewards_debt # <<>>
    /\ PreAccount.amount_staked # <<>>
    /\ PostAccount.amount_staked # PreAccount.amount_staked
    /\ PostAccount.rewards_debt # SettledPending
    /\ PostAccount.rewards_debt
           = Add(PreAccount.rewards_debt, PreAccount.rewards_debt)

\* C17: after a successful unstake(amount) the caller's amount_staked is
\* its previous value minus amount, and rewards_debt is exactly the pending
\* value the unstake computed: it replaces the previous debt.
C17_UnstakeEffect ==
    (last.op = "unstake" /\ last.result = "Ok") =>
        /\ Add(PostAccount.amount_staked, last.amount)
               = PreAccount.amount_staked
        /\ PostAccount.rewards_debt = SettledPending

\* An unstake of a part was made on an account that carried a debt: the
\* debt it leaves is the settled value, not that value added to the old debt.
C17_Witness ==
    /\ last.op = "unstake"
    /\ last.result = "Ok"
    /\ last.amount # <<>>
    /\ PostAccount.amount_staked # <<>>
    /\ PreAccount.rewards_debt # <<>>
    /\ PostAccount.rewards_debt = SettledPending
    /\ PostAccount.rewards_debt
           # Add(PreAccount.rewards_debt, SettledPending)

C19_VaultCoversTotalStaked ==
    Leq(stake_pool.total_staked, vault_token_account)

\* C20: an instruction called by one user never changes a field
\* (amount_staked, rewards_debt, last_stake_slot) of another user's account.
C20_OtherAccountsUntouched ==
    (IsTokenOp \/ last.op = "create_user_account") =>
        \A b \in Users \ {last.user} :
            /\ user_account[b].amount_staked
                   = last.pre.user_account[b].amount_staked
            /\ user_account[b].rewards_debt
                   = last.pre.user_account[b].rewards_debt
            /\ user_account[b].last_stake_slot
                   = last.pre.user_account[b].last_stake_slot
            /\ user_account[b] = last.pre.user_account[b]

\* One user's stake succeeded in a later slot while another user held a
\* stake of a different size: the caller's account changed and the other's
\* did not.
C20_Witness ==
    /\ last.op = "stake"
    /\ last.result = "Ok"
    /\ PostAccount # PreAccount
    /\ \E b \in Users \ {last.user} :
           /\ user_account[b].amount_staked # <<>>
           /\ user_account[b].amount_staked # PostAccount.amount_staked
           /\ Lt(user_account[b].last_stake_slot, slot)
           /\ user_account[b] = last.pre.user_account[b]

====
